---------------------------- MODULE Spec2Model ----------------------------
(***************************************************************************)
(* Orchestration core of dailyrootcauseanalysis.                           *)
(*                                                                         *)
(*  - request/response trigger: HttpTrigger1/__init__.py                   *)
(*      main -> run_all_scripts -> run_script / check_csv_files /          *)
(*      delete_files                                       (Spec)          *)
(*      the same when the run keeps executing              (SpecLive)      *)
(*  - the artifact verifier on its own, any retries >= 0   (SpecVerify)    *)
(*  - the cleanup sweeper on its own                       (SpecSweep)     *)
(*  - fire-and-forget trigger: src/app.py and HttpTrigger1/app.py          *)
(*      sync -> thread(run_async_script), status file      (SpecSync)      *)
(*      with GET /status asked at any moment               (SpecStatus)    *)
(*      with POST /sync made one run at a time             (SpecDisciplined)*)
(***************************************************************************)
EXTENDS Integers, Sequences, FiniteSets, TLC

VARIABLES
    \* ---- request/response trigger (HttpTrigger1/__init__.py) ----
    pc,           \* position of main / run_all_scripts
    scripts,      \* config['scripts']: the ordered stage list
    csv_files,    \* config['csv_files']: the expected artifacts
    i,            \* index of the stage the for loop is at
    success,      \* run_all_scripts' local `success`
    stageResult,  \* per stage: what happened to its run_script call
    result,       \* what run_all_scripts returned ("none" before)
    raised,       \* an exception is propagating / has reached main's except
    cleanups,     \* number of delete_files calls in this run
    response,     \* status code of the HttpResponse (0: none yet)
    files,        \* names of the regular files present in BASE_DIR
    \* ---- check_csv_files ----
    vpc,          \* position inside check_csv_files
    retries,      \* its `retries` argument
    attempt,      \* the loop variable `attempt`
    verified,     \* its return value ("none" before)
    snaps,        \* directory content seen at each attempt, in order
    \* ---- fire-and-forget trigger (app.py) ----
    app,          \* which app.py is deployed: "src" or "HttpTrigger1"
    marker,       \* status.txt: [exists |-> BOOLEAN, content |-> chars]
    hpc,          \* per trigger: position of its sync() handler
    seen,         \* per trigger: the status sync() read
    hwrites,      \* per trigger: the values sync() wrote, in order
    ack,          \* per trigger: the "status" of the JSON acknowledgment
    wpc,          \* per trigger: position of its run_async_script thread
    wok,          \* per trigger: what run_script returned to the thread
    wexc,         \* per trigger: the thread is in its except branch
    wtrace,       \* per trigger: the calls the thread has made, in order
    polled,       \* the last answer of GET /status: [made, status]
    \* ---- delete_files ----
    sweeps        \* the delete_files calls made: [before, after, raised]

rrVars     == <<pc, scripts, csv_files, i, success, stageResult, result,
                raised, cleanups, response>>
verifyVars == <<vpc, retries, attempt, verified, snaps>>
syncVars   == <<app, marker, hpc, seen, hwrites, ack, wpc, wok, wexc, wtrace>>
auxVars    == <<polled, sweeps>>
vars       == <<rrVars, files, verifyVars, syncVars, auxVars>>

---------------------------------------------------------------------------
(* Bounds of the model *)

MaxStages   == 3     \* longest stage list explored
MaxRetries  == 3     \* largest `retries` explored by SpecVerify
MaxTriggers == 2     \* number of POST /sync requests explored
MaxSweeps   == 2     \* number of delete_files calls explored by SpecSweep

(* Program constants *)

DefaultRetries == 3  \* check_csv_files(files, retries=3, delay=2)

---------------------------------------------------------------------------
(* Strings the code inspects character by character are tuples of          *)
(* characters; str.endswith and str.strip are computed on them.            *)

A_CSV  == <<"a", ".", "c", "s", "v">>
B_XLSX == <<"b", ".", "x", "l", "s", "x">>
X_CSV  == <<"x", ".", "c", "s", "v">>
N_TXT  == <<"n", ".", "t", "x", "t">>

DOT_CSV  == <<".", "c", "s", "v">>
DOT_XLSX == <<".", "x", "l", "s", "x">>

Artifacts == {A_CSV, B_XLSX}                 \* names csv_files is drawn from
DirNames  == {A_CSV, B_XLSX, X_CSV, N_TXT}   \* names that may be in BASE_DIR

BASE_DIR == "HttpTrigger1"

\* str.endswith(suffix)
endswith(s, suffix) ==
    /\ Len(suffix) <= Len(s)
    /\ SubSeq(s, Len(s) - Len(suffix) + 1, Len(s)) = suffix

\* get_file_path(filename): os.path.join(BASE_DIR, filename)
get_file_path(filename) == <<BASE_DIR, filename>>

\* os.path.isfile(path), for the directory content `dir`
isfile(path, dir) == path[1] = BASE_DIR /\ path[2] \in dir

\* os.listdir(BASE_DIR)
listdir(dir) == dir

---------------------------------------------------------------------------
(* Stage Executor.  An outcome is what the operating system does with      *)
(* ['python3', script]: "oserror" (the process cannot be started),         *)
(* "exit0", "nonzero".  The value is "True", "False", or "raise" when the  *)
(* exception leaves run_script.                                            *)

Outcomes == {"oserror", "exit0", "nonzero"}

\* HttpTrigger1/__init__.py run_script: only CalledProcessError is caught
run_script(outcome) ==
    CASE outcome = "exit0"   -> "True"
      [] outcome = "nonzero" -> "False"
      [] outcome = "oserror" -> "raise"

\* HttpTrigger1/main.py run_script (async): `except Exception` catches all
async_run_script(outcome) ==
    CASE outcome = "exit0"   -> "True"
      [] outcome = "nonzero" -> "False"
      [] outcome = "oserror" -> "False"

---------------------------------------------------------------------------
(* Artifact Verifier: check_csv_files(files, retries=3, delay=2)           *)

\* range(retries) cut one short: the last attempt is never made
range_short(n) == 0 .. (n - 2)

\* range(retries)
range(n) == 0 .. (n - 1)

\* [get_file_path(file) for file in files
\*      if not os.path.isfile(get_file_path(file))]
missing_files(fs, dir) ==
    { get_file_path(f) : f \in { g \in fs : ~isfile(get_file_path(g), dir) } }

\* The call: the loop variable starts at the head of range(retries).
check_csv_files_call(r) ==
    /\ vpc' = "attempt"
    /\ retries' = r
    /\ attempt' = 0
    /\ verified' = "none"
    /\ snaps' = <<>>

\* One pass through the head and body of `for attempt in range(retries)`:
\* return True when nothing is missing, else warn and go to sleep; when the
\* range is exhausted, return False.
VerifyAttempt ==
    /\ vpc = "attempt"
    /\ IF attempt \in range(retries)
         THEN /\ snaps' = Append(snaps, files)
              /\ IF missing_files(csv_files, files) = {}
                   THEN /\ verified' = "True"
                        /\ vpc' = "done"
                   ELSE /\ verified' = verified
                        /\ vpc' = "sleep"
         ELSE /\ verified' = "False"
              /\ vpc' = "done"
              /\ snaps' = snaps
    /\ UNCHANGED <<retries, attempt, files, rrVars, syncVars, auxVars>>

\* time.sleep(delay), then the next value of the loop variable
VerifySleep ==
    /\ vpc = "sleep"
    /\ attempt' = attempt + 1
    /\ vpc' = "attempt"
    /\ UNCHANGED <<retries, verified, snaps, files, rrVars, syncVars, auxVars>>

---------------------------------------------------------------------------
(* Cleanup Sweeper: delete_files(files)                                    *)

\* the first loop calling os.remove without the os.path.isfile test
listed_removals_unchecked(fs, dir) == fs

\* first loop: the files os.remove is called on, those os.path.isfile finds
listed_removals(fs, dir) == { f \in fs : isfile(get_file_path(f), dir) }

\* first loop: os.remove every listed file that os.path.isfile finds
remove_listed(fs, dir) == dir \ listed_removals(fs, dir)

\* second loop: the entries of os.listdir os.remove is called on
tracked_removals(dir) ==
    { f \in listdir(dir) : endswith(f, DOT_CSV) \/ endswith(f, DOT_XLSX) }

\* second loop: os.remove every directory entry ending in .csv or .xlsx
remove_tracked(dir) == dir \ tracked_removals(dir)

\* os.remove(path) raises FileNotFoundError when the file is not there:
\* whether some os.remove call of delete_files raises
delete_files_raises(fs, dir) ==
    \/ \E f \in listed_removals(fs, dir) : f \notin dir
    \/ \E f \in tracked_removals(remove_listed(fs, dir)) :
           f \notin remove_listed(fs, dir)

delete_files(fs, dir) == remove_tracked(remove_listed(fs, dir))

---------------------------------------------------------------------------
(* The working directory: stages (and whatever they leave running) create  *)
(* files while a run or a verification is in progress.                     *)

FileAppears(f) ==
    /\ \/ pc \notin {"idle", "responded"}
       \/ vpc \in {"attempt", "sleep"}
    /\ f \notin files
    /\ files' = files \cup {f}
    /\ UNCHANGED <<rrVars, verifyVars, syncVars, auxVars>>

\* delete_files(csv_files) called on its own, on whatever BASE_DIR holds
SweepCall ==
    /\ pc = "sweeping"
    /\ Len(sweeps) < MaxSweeps
    /\ files' = delete_files(csv_files, files)
    /\ sweeps' = Append(sweeps, [before |-> files, after |-> files',
                                 raised |-> delete_files_raises(csv_files, files)])
    /\ UNCHANGED <<rrVars, verifyVars, syncVars, polled>>

---------------------------------------------------------------------------
(* Pipeline Runner and request/response gateway: run_all_scripts, main     *)

StageIds == 1 .. MaxStages

\* main(req): logging, then `try: success = run_all_scripts()`;
\* run_all_scripts starts with success = True and the first script.
Request ==
    /\ pc = "idle"
    /\ pc' = "loop"
    /\ i' = 1
    /\ success' = TRUE
    /\ UNCHANGED <<scripts, csv_files, stageResult, result, raised, cleanups,
                   response, files, verifyVars, syncVars, auxVars>>

\* the loop without its `break`: a failed stage is followed by the next one
stage_returned_no_break(ok) ==
    /\ i' = i + 1
    /\ pc' = "loop"
    /\ success' = (success /\ ok)

\* `if not run_script(script): success = False; break`
stage_returned(ok) ==
    IF ok
      THEN /\ i' = i + 1
           /\ pc' = "loop"
           /\ success' = success
      ELSE /\ success' = FALSE
           /\ pc' = "sleep2"
           /\ i' = i

\* a launch that does not wait (subprocess.Popen instead of check_call):
\* the loop goes on to the next script while the process runs
LaunchStage_Popen(started) ==
    /\ pc = "loop"
    /\ i <= Len(scripts)
    /\ stageResult' = [stageResult EXCEPT ![i] = "running"]
    /\ i' = i + 1
    /\ UNCHANGED <<pc, scripts, csv_files, success, result, raised, cleanups,
                   response, files, verifyVars, syncVars, auxVars>>

\* `for script in scripts:` takes the next script and run_script hands it to
\* subprocess.check_call, which starts the process or raises OSError
\* (FileNotFoundError, PermissionError, ...: no python3, no fork).
LaunchStage(started) ==
    /\ pc = "loop"
    /\ i <= Len(scripts)
    /\ IF started
         THEN /\ stageResult' = [stageResult EXCEPT ![i] = "running"]
              /\ pc' = "stage"
              /\ UNCHANGED <<i, success, raised>>
         ELSE /\ stageResult' = [stageResult EXCEPT ![i] = "oserror"]
              /\ IF run_script("oserror") = "raise"
                   THEN /\ raised' = TRUE
                        /\ pc' = "except"
                        /\ UNCHANGED <<i, success>>
                   ELSE /\ raised' = raised
                        /\ stage_returned(run_script("oserror") = "True")
    /\ UNCHANGED <<scripts, csv_files, result, cleanups, response, files,
                   verifyVars, syncVars, auxVars>>

\* The stage's process exits; check_call returns or raises
\* CalledProcessError, and run_script returns to the loop.
StageExit(outcome) ==
    /\ pc = "stage"
    /\ outcome \in {"exit0", "nonzero"}
    /\ stageResult' = [stageResult EXCEPT ![i] = outcome]
    /\ stage_returned(run_script(outcome) = "True")
    /\ UNCHANGED <<scripts, csv_files, result, raised, cleanups, response,
                   files, verifyVars, syncVars, auxVars>>

\* the for loop ends with no script left
LoopEnd ==
    /\ pc = "loop"
    /\ i > Len(scripts)
    /\ pc' = "sleep2"
    /\ UNCHANGED <<scripts, csv_files, i, success, stageResult, result, raised,
                   cleanups, response, files, verifyVars, syncVars, auxVars>>

\* `check_csv_files(csv_files)` evaluated whatever `success` is
calls_verifier_always(s) == TRUE

\* `success and check_csv_files(csv_files)`: `and` evaluates its right
\* operand, the call, only when `success` is true
calls_verifier(s) == s

\* time.sleep(2), then `if success and check_csv_files(csv_files)`:
\* `and` calls the verifier only when success is True.
Sleep2 ==
    /\ pc = "sleep2"
    /\ IF calls_verifier(success)
         THEN /\ check_csv_files_call(DefaultRetries)
              /\ pc' = "verify"
         ELSE /\ pc' = "cleanup"
              /\ UNCHANGED verifyVars
    /\ UNCHANGED <<scripts, csv_files, i, success, stageResult, result, raised,
                   cleanups, response, files, syncVars, auxVars>>

\* the if/else without `success = False`: a missing artifact goes unreported
checked_success_unmarked(s, v) == s

\* the value of `success` after the if/else of lines 72-76
checked_success(s, v) == s /\ v = "True"

\* a runner that starts the stage list again when the artifacts are missing
VerifyReturn_RetryStages ==
    /\ pc = "verify"
    /\ vpc = "done"
    /\ success' = checked_success(success, verified)
    /\ IF success' THEN pc' = "cleanup" /\ i' = i
                   ELSE pc' = "loop" /\ i' = 1
    /\ vpc' = "idle"
    /\ UNCHANGED <<scripts, csv_files, stageResult, result, raised, cleanups,
                   response, files, retries, attempt, verified, snaps,
                   syncVars, auxVars>>

\* check_csv_files has returned: log, or warn and mark the run failed
VerifyReturn ==
    /\ pc = "verify"
    /\ vpc = "done"
    /\ success' = checked_success(success, verified)
    /\ pc' = "cleanup"
    /\ vpc' = "idle"
    /\ UNCHANGED <<scripts, csv_files, i, stageResult, result, raised, cleanups,
                   response, files, retries, attempt, verified, snaps, syncVars, auxVars>>

\* `delete_files(csv_files)` and `return success`
Cleanup ==
    /\ pc = "cleanup"
    /\ files' = delete_files(csv_files, files)
    /\ sweeps' = Append(sweeps, [before |-> files, after |-> files',
                                 raised |-> delete_files_raises(csv_files, files)])
    /\ cleanups' = cleanups + 1
    /\ result' = IF success THEN "True" ELSE "False"
    /\ pc' = "returned"
    /\ UNCHANGED <<scripts, csv_files, i, success, stageResult, raised,
                   response, verifyVars, syncVars, polled>>

\* main: the status code for what run_all_scripts did
main_status(outcome) ==
    CASE outcome = "True"  -> 200
      [] outcome = "False" -> 400
      [] outcome = "raise" -> 500

\* main: `if success: return 200 ... else: return 400`
Respond ==
    /\ pc = "returned"
    /\ response' = main_status(result)
    /\ pc' = "responded"
    /\ UNCHANGED <<scripts, csv_files, i, success, stageResult, result, raised,
                   cleanups, files, verifyVars, syncVars, auxVars>>

\* main: `except Exception as e: ... return 500`
RespondError ==
    /\ pc = "except"
    /\ response' = main_status("raise")
    /\ pc' = "responded"
    /\ UNCHANGED <<scripts, csv_files, i, success, stageResult, result, raised,
                   cleanups, files, verifyVars, syncVars, auxVars>>

---------------------------------------------------------------------------
(* Run-State Tracker: status.txt (SYNC_STATUS_FILE) and its four values    *)

NOT_STARTED ==
    <<"S", "y", "n", "c", " ", "n", "o", "t", " ", "s", "t", "a", "r", "t", "e", "d">>
RUNNING ==
    <<"S", "y", "n", "c", " ", "r", "u", "n", "n", "i", "n", "g">>
COMPLETED ==
    <<"S", "y", "n", "c", " ", "c", "o", "m", "p", "l", "e", "t", "e", "d">>
FAILED ==
    <<"S", "y", "n", "c", " ", "f", "a", "i", "l", "e", "d">>

StatusValues == {NOT_STARTED, RUNNING, COMPLETED, FAILED}

Whitespace == {" ", "\n", "\t", "\r"}

\* str.strip(): drop leading and trailing whitespace
strip(s) ==
    LET keep == { k \in 1 .. Len(s) : s[k] \notin Whitespace }
    IN  IF keep = {}
          THEN <<>>
          ELSE SubSeq(s, CHOOSE k \in keep : \A m \in keep : k <= m,
                         CHOOSE k \in keep : \A m \in keep : k >= m)

\* open(SYNC_STATUS_FILE, 'w'): the file is created or truncated at once
open_w(file) == [exists |-> TRUE, content |-> <<>>]

\* leaving the `with` block flushes file.write(data): one write at offset 0
\* of the descriptor, which truncates nothing
write_flush(file, data) ==
    [file EXCEPT !.content =
        IF Len(data) >= Len(@)
          THEN data
          ELSE data \o SubSeq(@, Len(data) + 1, Len(@))]

\* os.path.exists(SYNC_STATUS_FILE)
exists(file) == file.exists

\* file.read().strip()
read_status(file) == strip(file.content)

---------------------------------------------------------------------------
(* Fire-and-forget gateway: sync() of app.py, one handler per POST /sync   *)

HandlerSteps ==
    {"idle", "reset_open", "reset_write", "begin_open", "begin_write", "spawn"}

\* the test on the terminal values instead: Completed or Failed
should_reset_terminal(status) == status = COMPLETED \/ status = FAILED

\* `if status == "Sync completed" or status == "Sync running":`
should_reset(status) == status = COMPLETED \/ status = RUNNING

\* sync() with a single-flight guard: a trigger that finds "Sync running"
\* is rejected
sync_branch_single_flight(found, status) ==
    IF found /\ status = RUNNING
      THEN "rejected"
      ELSE IF found /\ status = COMPLETED THEN "reset_open" ELSE "begin_open"

\* where sync() goes after looking at the file
sync_branch(found, status) ==
    IF found /\ should_reset(status) THEN "reset_open" ELSE "begin_open"

\* The request arrives; `if os.path.exists(...)`: read and strip the status.
\* (Requests are numbered in the order they arrive.)
SyncRead(t) ==
    /\ hpc[t] = "idle"
    /\ IF t = 1 THEN TRUE ELSE hpc[t - 1] # "idle"
    /\ seen' = [seen EXCEPT ![t] =
                  IF exists(marker)
                    THEN [found |-> TRUE, status |-> read_status(marker)]
                    ELSE [found |-> FALSE, status |-> <<>>]]
    /\ hpc' = [hpc EXCEPT ![t] = sync_branch(seen'[t].found, seen'[t].status)]
    /\ UNCHANGED <<app, marker, hwrites, ack, wpc, wok, wexc, wtrace,
                   rrVars, files, verifyVars, auxVars>>

\* a reset that declares the run in progress failed
reset_value_failed == FAILED

\* reset_sync_state(): file.write("Sync not started")
reset_value == NOT_STARTED

\* reset_sync_state(): open(SYNC_STATUS_FILE, 'w')
ResetOpen(t) ==
    /\ hpc[t] = "reset_open"
    /\ marker' = open_w(marker)
    /\ hpc' = [hpc EXCEPT ![t] = "reset_write"]
    /\ UNCHANGED <<app, seen, hwrites, ack, wpc, wok, wexc, wtrace,
                   rrVars, files, verifyVars, auxVars>>

\* reset_sync_state(): file.write("Sync not started") reaches the file
ResetWrite(t) ==
    /\ hpc[t] = "reset_write"
    /\ marker' = write_flush(marker, reset_value)
    /\ hwrites' = [hwrites EXCEPT ![t] = Append(@, reset_value)]
    /\ hpc' = [hpc EXCEPT ![t] = "begin_open"]
    /\ UNCHANGED <<app, seen, ack, wpc, wok, wexc, wtrace,
                   rrVars, files, verifyVars, auxVars>>

\* sync(): open(SYNC_STATUS_FILE, 'w') of "Update sync status"
BeginOpen(t) ==
    /\ hpc[t] = "begin_open"
    /\ marker' = open_w(marker)
    /\ hpc' = [hpc EXCEPT ![t] = "begin_write"]
    /\ UNCHANGED <<app, seen, hwrites, ack, wpc, wok, wexc, wtrace,
                   rrVars, files, verifyVars, auxVars>>

\* sync(): file.write("Sync running") reaches the file
BeginWrite(t) ==
    /\ hpc[t] = "begin_write"
    /\ marker' = write_flush(marker, RUNNING)
    /\ hwrites' = [hwrites EXCEPT ![t] = Append(@, RUNNING)]
    /\ hpc' = [hpc EXCEPT ![t] = "spawn"]
    /\ UNCHANGED <<app, seen, ack, wpc, wok, wexc, wtrace,
                   rrVars, files, verifyVars, auxVars>>

\* a handler answering with an error status
sync_ack_error == "error"

\* return jsonify({"status": "success", "message": "Sync started."})
sync_ack == "success"

\* sync(): threading.Thread(target=run_async_script).start() and, with
\* nothing in between, return jsonify({"status": "success", ...})
SyncSpawn(t) ==
    /\ hpc[t] = "spawn"
    /\ wpc' = [wpc EXCEPT ![t] = "start"]
    /\ ack' = [ack EXCEPT ![t] = sync_ack]
    /\ hpc' = [hpc EXCEPT ![t] = "done"]
    /\ UNCHANGED <<app, marker, seen, hwrites, wok, wexc, wtrace,
                   rrVars, files, verifyVars, auxVars>>

---------------------------------------------------------------------------
(* Background worker: run_async_script() of app.py, one thread per trigger *)

\* the thread without its downstream call
after_run_script_no_azure(deployed, value) ==
    IF deployed = "src" THEN "finish_open" ELSE "done"

\* where the thread goes once asyncio.run(run_script("main.py")) is over:
\* src/app.py goes on to call_azure_function, HttpTrigger1/app.py returns;
\* an exception leaving run_script would enter src/app.py's except branch
after_run_script(deployed, value) ==
    IF deployed = "src"
      THEN IF value = "raise" THEN "finish_open" ELSE "azure"
      ELSE "done"

\* where the thread is after create_subprocess_exec: run_script awaits
\* process.communicate() when the process started, and has caught the
\* exception and returned when it did not
after_launch(deployed, started) ==
    IF started
      THEN "stage"
      ELSE after_run_script(deployed, async_run_script("oserror"))

\* asyncio.run(run_script("main.py")): create_subprocess_exec starts
\* ['python3', 'main.py'] or raises
WorkerLaunch(t, started) ==
    /\ wpc[t] = "start"
    /\ wtrace' = [wtrace EXCEPT ![t] = Append(@, "run_script")]
    /\ wpc' = [wpc EXCEPT ![t] = after_launch(app, started)]
    /\ wok' = [wok EXCEPT ![t] =
                 IF wpc'[t] = "stage" THEN @ ELSE async_run_script("oserror")]
    /\ wexc' = [wexc EXCEPT ![t] =
                  wpc'[t] # "stage" /\ async_run_script("oserror") = "raise"]
    /\ UNCHANGED <<app, marker, hpc, seen, hwrites, ack,
                   rrVars, files, verifyVars, auxVars>>

\* process.communicate() returns: run_script returns by the return code
WorkerStageExit(t, outcome) ==
    /\ wpc[t] = "stage"
    /\ outcome \in {"exit0", "nonzero"}
    /\ wok' = [wok EXCEPT ![t] = async_run_script(outcome)]
    /\ wexc' = [wexc EXCEPT ![t] = async_run_script(outcome) = "raise"]
    /\ wpc' = [wpc EXCEPT ![t] = after_run_script(app, wok'[t])]
    /\ UNCHANGED <<app, marker, hpc, seen, hwrites, ack, wtrace,
                   rrVars, files, verifyVars, auxVars>>

\* call_azure_function(payload): the JSON of the response, the {"error": ...}
\* dict when requests raised a RequestException, or any other exception
\* (a non-JSON body with an older requests, ...), which it does not catch
AzureOutcomes == {"json", "request_exception", "other_exception"}

call_azure_function(outcome) ==
    IF outcome = "other_exception" THEN "raise" ELSE "returned"

\* src/app.py: azure_response = call_azure_function(payload); print(...)
WorkerAzure(t, outcome) ==
    /\ wpc[t] = "azure"
    /\ outcome \in AzureOutcomes
    /\ wtrace' = [wtrace EXCEPT ![t] = Append(@, "call_azure_function")]
    /\ wexc' = [wexc EXCEPT ![t] = call_azure_function(outcome) = "raise"]
    /\ wpc' = [wpc EXCEPT ![t] = "finish_open"]
    /\ UNCHANGED <<app, marker, hpc, seen, hwrites, ack, wok,
                   rrVars, files, verifyVars, auxVars>>

\* src/app.py: "Sync completed" at the end of the try body, "Sync failed"
\* in `except Exception`
finish_value(exc) == IF exc THEN FAILED ELSE COMPLETED

\* src/app.py: open(SYNC_STATUS_FILE, 'w') of either branch
WorkerFinishOpen(t) ==
    /\ wpc[t] = "finish_open"
    /\ marker' = open_w(marker)
    /\ wpc' = [wpc EXCEPT ![t] = "finish_write"]
    /\ UNCHANGED <<app, hpc, seen, hwrites, ack, wok, wexc, wtrace,
                   rrVars, files, verifyVars, auxVars>>

\* src/app.py: the terminal value reaches the file; the thread ends
WorkerFinishWrite(t) ==
    /\ wpc[t] = "finish_write"
    /\ marker' = write_flush(marker, finish_value(wexc[t]))
    /\ wtrace' = [wtrace EXCEPT ![t] = Append(@, "finish")]
    /\ wpc' = [wpc EXCEPT ![t] = "done"]
    /\ UNCHANGED <<app, hpc, seen, hwrites, ack, wok, wexc,
                   rrVars, files, verifyVars, auxVars>>

---------------------------------------------------------------------------
(* GET /status: status() of app.py                                         *)

\* open(SYNC_STATUS_FILE, 'r'), file.read().strip(); FileNotFoundError
\* gives "Sync not started"
status_value(file) ==
    IF exists(file) THEN read_status(file) ELSE NOT_STARTED

\* the request is answered with jsonify({"status": status})
StatusPoll ==
    /\ polled' = [made |-> TRUE, status |-> status_value(marker)]
    /\ UNCHANGED <<rrVars, files, verifyVars, syncVars, sweeps>>

---------------------------------------------------------------------------
(* Initial states *)

Triggers == 1 .. MaxTriggers

\* no request has been made
RequestIdle ==
    /\ pc = "idle"
    /\ i = 1
    /\ success = TRUE
    /\ stageResult = [k \in StageIds |-> "none"]
    /\ result = "none"
    /\ raised = FALSE
    /\ cleanups = 0
    /\ response = 0

\* check_csv_files is not being called
VerifyIdle ==
    /\ vpc = "idle"
    /\ retries = DefaultRetries
    /\ attempt = 0
    /\ verified = "none"
    /\ snaps = <<>>

\* GET /status has not been asked, delete_files has not been called
AuxIdle ==
    /\ polled = [made |-> FALSE, status |-> <<>>]
    /\ sweeps = <<>>

\* no POST /sync has been made and status.txt does not exist
SyncIdle ==
    /\ app = "src"
    /\ marker = [exists |-> FALSE, content |-> <<>>]
    /\ hpc = [t \in Triggers |-> "idle"]
    /\ seen = [t \in Triggers |-> [found |-> FALSE, status |-> <<>>]]
    /\ hwrites = [t \in Triggers |-> <<>>]
    /\ ack = [t \in Triggers |-> "none"]
    /\ wpc = [t \in Triggers |-> "idle"]
    /\ wok = [t \in Triggers |-> "none"]
    /\ wexc = [t \in Triggers |-> FALSE]
    /\ wtrace = [t \in Triggers |-> <<>>]

\* The function app is loaded: any stage list up to MaxStages, any expected
\* artifacts, any leftover files in the directory.
Init ==
    /\ scripts \in { [k \in 1 .. n |-> k] : n \in 0 .. MaxStages }
    /\ csv_files \in SUBSET Artifacts
    /\ files \in SUBSET DirNames
    /\ RequestIdle
    /\ VerifyIdle
    /\ SyncIdle
    /\ AuxIdle

Next ==
    \/ Request
    \/ \E started \in BOOLEAN : LaunchStage(started)
    \/ \E outcome \in {"exit0", "nonzero"} : StageExit(outcome)
    \/ LoopEnd
    \/ Sleep2
    \/ VerifyAttempt
    \/ VerifySleep
    \/ VerifyReturn
    \/ Cleanup
    \/ Respond
    \/ RespondError
    \/ \E f \in DirNames : FileAppears(f)

Spec == Init /\ [][Next]_vars

\* A step of the run itself: the interpreter executes the next statement of
\* main / run_all_scripts / check_csv_files (time.sleep returns), and the
\* process of a started stage exits.
RunStep ==
    \/ \E started \in BOOLEAN : LaunchStage(started)
    \/ \E outcome \in {"exit0", "nonzero"} : StageExit(outcome)
    \/ LoopEnd
    \/ Sleep2
    \/ VerifyAttempt
    \/ VerifySleep
    \/ VerifyReturn
    \/ Cleanup
    \/ Respond
    \/ RespondError

\* The request/response trigger when the thread of the request keeps
\* running and every stage process eventually exits.
SpecLive == Spec /\ WF_vars(RunStep)

\* check_csv_files called directly with any expected paths and any retries
InitVerify ==
    /\ scripts = <<>>
    /\ csv_files \in SUBSET DirNames
    /\ files \in SUBSET DirNames
    /\ RequestIdle
    /\ vpc = "attempt"
    /\ retries \in 0 .. MaxRetries
    /\ attempt = 0
    /\ verified = "none"
    /\ snaps = <<>>
    /\ SyncIdle
    /\ AuxIdle

NextVerify ==
    \/ VerifyAttempt
    \/ VerifySleep
    \/ \E f \in DirNames : FileAppears(f)

SpecVerify == InitVerify /\ [][NextVerify]_vars

\* The Flask app is started: either app.py; status.txt is absent or holds
\* what an earlier process left in it (one line, with or without a newline).
InitSync ==
    /\ scripts = <<>>
    /\ csv_files = {}
    /\ files = {}
    /\ RequestIdle
    /\ VerifyIdle
    /\ app \in {"src", "HttpTrigger1"}
    /\ marker \in {[exists |-> FALSE, content |-> <<>>]}
                  \cup { [exists |-> TRUE, content |-> v] : v \in StatusValues }
                  \cup {[exists |-> TRUE, content |-> COMPLETED \o <<"\n">>]}
    /\ hpc = [t \in Triggers |-> "idle"]
    /\ seen = [t \in Triggers |-> [found |-> FALSE, status |-> <<>>]]
    /\ hwrites = [t \in Triggers |-> <<>>]
    /\ ack = [t \in Triggers |-> "none"]
    /\ wpc = [t \in Triggers |-> "idle"]
    /\ wok = [t \in Triggers |-> "none"]
    /\ wexc = [t \in Triggers |-> FALSE]
    /\ wtrace = [t \in Triggers |-> <<>>]
    /\ AuxIdle

NextSync ==
    \E t \in Triggers :
        \/ SyncRead(t)
        \/ ResetOpen(t)
        \/ ResetWrite(t)
        \/ BeginOpen(t)
        \/ BeginWrite(t)
        \/ SyncSpawn(t)
        \/ \E started \in BOOLEAN : WorkerLaunch(t, started)
        \/ \E outcome \in {"exit0", "nonzero"} : WorkerStageExit(t, outcome)
        \/ \E outcome \in AzureOutcomes : WorkerAzure(t, outcome)
        \/ WorkerFinishOpen(t)
        \/ WorkerFinishWrite(t)

SpecSync == InitSync /\ [][NextSync]_vars

\* The fire-and-forget trigger under caller discipline: POST /sync is made
\* only when no worker is active and no earlier request is being handled.
NoRunInProgress ==
    \A u \in Triggers :
        hpc[u] \in {"idle", "done"} /\ wpc[u] \in {"idle", "done"}

SyncReadDisciplined(t) == NoRunInProgress /\ SyncRead(t)

NextDisciplined ==
    \E t \in Triggers :
        \/ SyncReadDisciplined(t)
        \/ ResetOpen(t)
        \/ ResetWrite(t)
        \/ BeginOpen(t)
        \/ BeginWrite(t)
        \/ SyncSpawn(t)
        \/ \E started \in BOOLEAN : WorkerLaunch(t, started)
        \/ \E outcome \in {"exit0", "nonzero"} : WorkerStageExit(t, outcome)
        \/ \E outcome \in AzureOutcomes : WorkerAzure(t, outcome)
        \/ WorkerFinishOpen(t)
        \/ WorkerFinishWrite(t)

SpecDisciplined == InitSync /\ [][NextDisciplined]_vars

\* The cleanup sweeper on its own: any list of files, any directory content
\* made of regular files, files appearing between the calls.
InitSweep ==
    /\ pc = "sweeping"
    /\ scripts = <<>>
    /\ csv_files \in SUBSET DirNames
    /\ i = 1
    /\ success = TRUE
    /\ stageResult = [k \in StageIds |-> "none"]
    /\ result = "none"
    /\ raised = FALSE
    /\ cleanups = 0
    /\ response = 0
    /\ files \in SUBSET DirNames
    /\ VerifyIdle
    /\ SyncIdle
    /\ AuxIdle

NextSweep ==
    \/ SweepCall
    \/ \E f \in DirNames : FileAppears(f)

SpecSweep == InitSweep /\ [][NextSweep]_vars

\* The fire-and-forget trigger with GET /status asked at any moment.
NextStatus == NextSync \/ StatusPoll

SpecStatus == InitSync /\ [][NextStatus]_vars

---------------------------------------------------------------------------
(* Properties of the request/response trigger                              *)

\* run_script returned True / returned False for stage k
StageSucceeded(k) == stageResult[k] = "exit0"
StageFailed(k)    == stageResult[k] = "nonzero"
\* stage k did not succeed: it exited nonzero or could not be started
StageNotSucceeded(k) == stageResult[k] \in {"nonzero", "oserror"}

AllStagesSucceeded == \A k \in 1 .. Len(scripts) : StageSucceeded(k)
SomeStageFailed    == \E k \in 1 .. Len(scripts) : StageFailed(k)

\* C1: in a run of run_all_scripts, if stage k is the first stage that does
\* not succeed, every stage before it succeeded, no stage after it is ever
\* launched, and the run does not end in success: run_all_scripts never
\* returns True and the response is never 200; when the stage exited nonzero
\* run_all_scripts returns False and the response is 400.
C1_FailFast ==
    \A k \in 1 .. Len(scripts) :
        StageNotSucceeded(k) =>
            /\ \A j \in 1 .. (k - 1) : StageSucceeded(j)
            /\ \A j \in (k + 1) .. Len(scripts) : stageResult[j] = "none"
            /\ result # "True"
            /\ response # 200
            /\ pc = "returned" => result = "False"
            /\ pc = "responded" => response \in {400, 500}
            /\ (pc = "responded" /\ StageFailed(k)) =>
                   (result = "False" /\ response = 400)

\* stage 2 of 3 exited nonzero and the run has been answered
C1_Witness ==
    /\ pc = "responded"
    /\ Len(scripts) = 3
    /\ StageSucceeded(1)
    /\ StageFailed(2)
    /\ stageResult[3] = "none"
    /\ response = 400

\* C2: every triggered run has executed delete_files exactly once by the
\* time the HTTP response is returned, whatever the outcome (200, 400, 500).
C2_CleanupExactlyOnce ==
    /\ cleanups <= 1
    /\ pc = "responded" => cleanups = 1

C5_LaunchFailureIsStageFailure ==
    \A k \in 1 .. Len(scripts) :
        stageResult[k] = "oserror" =>
            /\ ~raised
            /\ pc # "except"
            /\ success = FALSE
            /\ response # 500

\* the process of stage k has been started and has not exited
StageActive(k) == stageResult[k] = "running"

\* subprocess.check_call has been called for stage k
StageLaunched(k) == stageResult[k] # "none"

\* C15: within one run the stages are launched in the order of the list and
\* never overlap: a stage is launched only when every stage before it has
\* exited with success, only stages of the list are launched, and at most
\* one stage process is active at any time (the one the loop is waiting on).
C15_StagesInOrderNoOverlap ==
    /\ \A k \in StageIds :
           StageLaunched(k) =>
               /\ k <= Len(scripts)
               /\ \A j \in 1 .. (k - 1) : StageSucceeded(j)
    /\ \A j, k \in StageIds : (StageActive(j) /\ StageActive(k)) => j = k
    /\ \A k \in StageIds : StageActive(k) => (pc = "stage" /\ i = k)

\* the third stage of three is running, the first two have exited with 0
C15_Witness ==
    /\ pc = "stage"
    /\ Len(scripts) = 3
    /\ StageSucceeded(1)
    /\ StageSucceeded(2)
    /\ StageActive(3)

\* check_csv_files has been called in this run
VerifierInvoked == vpc # "idle" \/ verified # "none" \/ snaps # <<>>

\* C14: in a run of run_all_scripts check_csv_files is called only if every
\* stage of the list succeeded; once a stage has failed (or could not be
\* started) it is never called; with an empty stage list it is called, and
\* the run's result is True exactly when check_csv_files returned True.
C14_VerifyOnlyAfterAllStages ==
    /\ VerifierInvoked => AllStagesSucceeded
    /\ (\E k \in 1 .. Len(scripts) : StageNotSucceeded(k)) =>
           (vpc = "idle" /\ verified = "none" /\ snaps = <<>>)
    /\ (scripts = <<>> /\ pc \in {"returned", "responded"}) =>
           /\ VerifierInvoked
           /\ verified \in {"True", "False"}
           /\ result = "True" <=> verified = "True"

\* a run with an empty stage list has been answered 400: the verifier polled
\* three times, an artifact was missing each time
C14_Witness ==
    /\ pc = "responded"
    /\ scripts = <<>>
    /\ csv_files # {}
    /\ Len(snaps) = DefaultRetries
    /\ verified = "False"
    /\ result = "False"
    /\ response = 400

\* the run has been started and has not been answered
InRun == pc \notin {"idle", "responded"}

\* C18: when every started stage process exits, a run of the
\* request/response trigger ends with a response.  On the way a stage is
\* launched at most once (at most Len(scripts) launches, a stage that has
\* exited is never started again), check_csv_files polls the directory at
\* most 3 times, delete_files runs at most once, and the response, once
\* given, is 200, 400 or 500.
C18_RunTerminates ==
    /\ InRun ~> pc = "responded"
    /\ [](/\ Len(snaps) <= DefaultRetries
          /\ cleanups <= 1
          /\ Len(sweeps) <= 1
          /\ Cardinality({k \in StageIds : StageLaunched(k)}) <= Len(scripts)
          /\ pc = "responded" => response \in {200, 400, 500})
    /\ [][\A k \in StageIds :
             /\ stageResult[k] = "running" =>
                    stageResult'[k] \in {"running", "exit0", "nonzero"}
             /\ stageResult[k] \in {"exit0", "nonzero", "oserror"} =>
                    stageResult'[k] = stageResult[k]]_vars

\* a run of three stages that all exited 0 has been answered 400 after
\* three polls found an artifact missing and one cleanup pass
C18_Witness ==
    /\ pc = "responded"
    /\ Len(scripts) = MaxStages
    /\ AllStagesSucceeded
    /\ Len(snaps) = DefaultRetries
    /\ verified = "False"
    /\ cleanups = 1
    /\ Len(sweeps) = 1
    /\ response = 400

---------------------------------------------------------------------------
(* Properties of the artifact verifier                                     *)

\* every expected path exists in directory content `dir`
AllPresent(dir) == csv_files \subseteq dir

\* C4: for any expected paths, any retries >= 1 and any schedule of files
\* appearing, check_csv_files makes between 1 and retries attempts; it
\* returns True iff every expected path exists at its last attempt, which
\* is then the first attempt at which nothing is missing (and the paths
\* still exist afterwards); it returns False only after retries attempts,
\* something missing at each of them.
C4_VerifyIffPresent ==
    (vpc = "done" /\ retries >= 1) =>
        LET n == Len(snaps)
        IN  /\ verified \in {"True", "False"}
            /\ n \in 1 .. retries
            /\ verified = "True" <=> AllPresent(snaps[n])
            /\ verified = "True" => AllPresent(files)
            /\ \A a \in 1 .. (n - 1) : ~AllPresent(snaps[a])
            /\ verified = "False" =>
                   /\ n = retries
                   /\ \A a \in 1 .. n : ~AllPresent(snaps[a])

\* the last expected file appeared only after the third of three attempts:
\* the verifier has returned False although every expected path now exists
C4_Witness ==
    /\ vpc = "done"
    /\ retries = 3
    /\ Len(snaps) = 3
    /\ csv_files # {}
    /\ verified = "False"
    /\ AllPresent(files)

---------------------------------------------------------------------------
(* Properties of the fire-and-forget trigger                               *)

\* the thread of trigger t has been started and has not ended
WorkerActive(t) == wpc[t] \notin {"idle", "done"}

\* the thread of trigger t has written, or is about to write, its terminal
\* value
WorkerFinishing(t) == wpc[t] \in {"finish_open", "finish_write"}

\* C6: when a worker ends its run, the terminal value it writes is
\* "Sync completed" iff the run succeeded (run_script returned True and
\* nothing raised) and "Sync failed" otherwise; a stage that exits nonzero
\* ends with "Sync failed".
C6_FinishReflectsResult ==
    \A t \in Triggers :
        (app = "src" /\ wpc[t] = "done") =>
            /\ finish_value(wexc[t]) \in {COMPLETED, FAILED}
            /\ finish_value(wexc[t]) = COMPLETED <=>
                   (wok[t] = "True" /\ ~wexc[t])

\* the calls of src/app.py's worker, in order
WorkerCalls == <<"run_script", "call_azure_function", "finish">>

IsPrefix(a, b) == Len(a) <= Len(b) /\ SubSeq(b, 1, Len(a)) = a

\* C7 as stated: a worker writes the terminal Run State only after the
\* Cleanup Sweeper of that run has executed on that worker.
C7_CleanupBeforeFinish ==
    \A t \in Triggers :
        \A b \in 1 .. Len(wtrace[t]) :
            wtrace[t][b] = "finish" =>
                \E a \in 1 .. (b - 1) : wtrace[t][a] = "delete_files"

\* C7 amended: each worker calls run_script for the one script main.py and
\* waits for it to return; src/app.py's worker then calls
\* call_azure_function and only then writes the terminal Run State, while
\* HttpTrigger1/app.py's worker ends without writing one; no worker calls
\* the stage list, the verifier or the cleanup.
C7_WorkerOrder ==
    \A t \in Triggers :
        /\ IsPrefix(wtrace[t], IF app = "src" THEN WorkerCalls
                                              ELSE <<"run_script">>)
        /\ wpc[t] \in {"azure", "finish_open", "finish_write", "done"} =>
               wok[t] \in {"True", "False"}
        /\ WorkerFinishing(t) => wtrace[t] = SubSeq(WorkerCalls, 1, 2)
        /\ wpc[t] = "done" =>
               wtrace[t] = IF app = "src" THEN WorkerCalls
                                          ELSE <<"run_script">>

\* a worker of src/app.py has run its script, made the downstream call and
\* written "Sync completed"
C7_Witness ==
    \E t \in Triggers :
        /\ app = "src"
        /\ wpc[t] = "done"
        /\ wtrace[t] = WorkerCalls
        /\ wok[t] = "True"
        /\ marker.content = COMPLETED

\* what a handler that has finished its writes must have written, given the
\* set of status values that call for a reset
HandlerWrites(t, resetting) ==
    IF seen[t].found /\ seen[t].status \in resetting
      THEN <<NOT_STARTED, RUNNING>>
      ELSE <<RUNNING>>

\* the handler of trigger t has made all its writes
HandlerWrote(t) == hpc[t] \in {"spawn", "done"}

\* C8 as stated: sync() resets exactly when the status it read is terminal
\* (Completed or Failed) and then writes Running: from Completed and Failed
\* it writes NotStarted then Running, from NotStarted or Running it writes
\* Running directly.
C8_ResetOnTerminal ==
    \A t \in Triggers :
        HandlerWrote(t) => hwrites[t] = HandlerWrites(t, {COMPLETED, FAILED})

\* C8 amended: sync() resets exactly when status.txt exists and its
\* stripped content is "Sync completed" or "Sync running", and then writes
\* Running unconditionally: from Completed and Running it writes NotStarted
\* then Running; from NotStarted, Failed, any other content or no file it
\* writes Running directly.
C8_ResetOnCompletedOrRunning ==
    \A t \in Triggers :
        /\ hpc[t] \in {"reset_open", "reset_write"} =>
               (seen[t].found /\ seen[t].status \in {COMPLETED, RUNNING})
        /\ hpc[t] \in {"begin_open", "begin_write"} =>
               IsPrefix(hwrites[t], HandlerWrites(t, {COMPLETED, RUNNING}))
        /\ hpc[t] \in {"begin_open", "begin_write"} =>
               Len(hwrites[t]) = Len(HandlerWrites(t, {COMPLETED, RUNNING})) - 1
        /\ HandlerWrote(t) =>
               hwrites[t] = HandlerWrites(t, {COMPLETED, RUNNING})

\* one trigger found "Sync running" and wrote NotStarted then Running;
\* another found "Sync failed" and wrote Running directly
C8_Witness ==
    \E t, u \in Triggers :
        /\ hpc[t] = "done" /\ hpc[u] = "done"
        /\ seen[t].status = RUNNING
        /\ hwrites[t] = <<NOT_STARTED, RUNNING>>
        /\ seen[u].status = FAILED
        /\ hwrites[u] = <<RUNNING>>

\* every trigger made has been answered and every worker has ended
AllFinished ==
    /\ \E t \in Triggers : hpc[t] # "idle"
    /\ \A t \in Triggers : hpc[t] \in {"idle", "done"}
    /\ \A t \in Triggers : hpc[t] = "done" => wpc[t] = "done"

\* C9: once every trigger has been answered and every worker has finished,
\* status.txt holds "Sync completed" or "Sync failed".
C9_EndsTerminal ==
    AllFinished =>
        (exists(marker) /\ read_status(marker) \in {COMPLETED, FAILED})

\* C10: no trigger is rejected or queued: whatever status it found, also
\* "Sync running", a handler that has left its steps has written Running
\* as its last write, started its worker and acknowledged with "success".
C10_NoSingleFlight ==
    \A t \in Triggers :
        hpc[t] \notin HandlerSteps =>
            /\ hpc[t] = "done"
            /\ wpc[t] # "idle"
            /\ ack[t] = "success"
            /\ hwrites[t] # <<>>
            /\ hwrites[t][Len(hwrites[t])] = RUNNING

\* a trigger that found "Sync running" has been acknowledged, and its
\* worker and an earlier trigger's worker are both about to write status.txt
C10_Witness ==
    \E t, u \in Triggers :
        /\ t # u
        /\ app = "src"
        /\ seen[u].found /\ seen[u].status = RUNNING
        /\ hpc[u] = "done"
        /\ ack[u] = "success"
        /\ WorkerActive(t) /\ WorkerActive(u)
        /\ wpc[t] = "finish_open" /\ wpc[u] = "finish_open"

\* C11: whenever GET /status has been answered, under any interleaving of
\* triggers, worker finishes and polls, the value returned is exactly one of
\* "Sync not started", "Sync running", "Sync completed", "Sync failed":
\* never empty, partial or anything else.
C11_StatusIsLiteral ==
    polled.made => polled.status \in StatusValues

---------------------------------------------------------------------------
(* Properties of the cleanup sweeper                                       *)

\* the name ends in a tracked output extension
Tracked(f) == endswith(f, DOT_CSV) \/ endswith(f, DOT_XLSX)

C13_AckWithoutWaiting ==
    /\ [](\A t \in Triggers :
             ack[t] # "none" => (ack[t] = "success" /\ hpc[t] = "done"))
    /\ [][\A t \in Triggers :
             ack'[t] # ack[t] =>
                 /\ ack[t] = "none"
                 /\ ack'[t] = "success"
                 /\ hpc[t] = "spawn"
                 /\ wpc'[t] # "idle"]_vars

\* one trigger has been acknowledged and its worker has not run a step yet,
\* while an earlier trigger, acknowledged the same way, has ended in `except`
C13_Witness ==
    \E t, u \in Triggers :
        /\ t # u
        /\ ack[t] = "success" /\ hpc[t] = "done" /\ wpc[t] = "start"
        /\ ack[u] = "success" /\ wpc[u] = "done" /\ wexc[u]

\* the value status.txt reads as is one of the two terminal ones
Terminal(file) == exists(file) /\ read_status(file) \in {COMPLETED, FAILED}

\* no POST /sync has arrived after trigger t
NoFurtherTrigger(t) == \A u \in Triggers : u > t => hpc[u] = "idle"

\* worker t is waiting for its script, and nothing else is going on: no
\* handler is in progress and no other worker is active
Quiet(t) ==
    /\ wpc[t] = "stage"
    /\ \A u \in Triggers : hpc[u] \in {"idle", "done"}
    /\ \A u \in Triggers : u # t => ~WorkerActive(u)

\* this step is a write (the open or the flush) of trigger u's handler
HandlerWriteStep(u) ==
    /\ hpc[u] \in {"reset_open", "reset_write", "begin_open", "begin_write"}
    /\ hpc'[u] # hpc[u]

\* this step is the open or the flush of worker u's final write
WorkerFinishStep(u) ==
    /\ wpc[u] \in {"finish_open", "finish_write"}
    /\ wpc'[u] # wpc[u]

\* C16 as claimed: while a worker's script has not exited and no further
\* trigger has arrived, the marker does not read Completed or Failed, since
\* nothing but that worker's own finish would write such a value.
C16_StuckNeverTerminal ==
    \A t \in Triggers :
        (wpc[t] = "stage" /\ NoFurtherTrigger(t)) => ~Terminal(marker)

\* C16, amended: nothing server-side times a run out.  status.txt is
\* changed only by a write of a trigger's handler or by the final write of a
\* worker; it comes to read Completed or Failed only by the flush of some
\* worker's final write; a worker leaves the wait for its script only when
\* the script's process exits; so while one worker waits and no handler and
\* no other worker is active, every step but the exit of that script and the
\* arrival of a new trigger leaves status.txt as it is.
C16_NoTimeout ==
    [][/\ marker' # marker =>
              \E u \in Triggers : HandlerWriteStep(u) \/ WorkerFinishStep(u)
       /\ (marker' # marker /\ Terminal(marker')) =>
              \E u \in Triggers : wpc[u] = "finish_write" /\ wpc'[u] = "done"
       /\ \A u \in Triggers :
              (wpc[u] = "stage" /\ wpc'[u] # "stage") =>
                  (wok[u] = "none" /\ wok'[u] \in {"True", "False"})
       /\ \A t \in Triggers :
              (Quiet(t) /\ wpc'[t] = "stage" /\ hpc' = hpc) =>
                  marker' = marker]_vars

\* the second trigger's worker waits for its script with status.txt reading
\* "Sync running", after the first trigger's run has ended
C16_Witness ==
    \E t, u \in Triggers :
        /\ u < t
        /\ Quiet(t)
        /\ wpc[u] = "done"
        /\ app = "src"
        /\ read_status(marker) = RUNNING

\* C17: under caller discipline the marker tracks the single run: whenever a
\* worker is active status.txt reads "Sync running", and it reads
\* "Sync completed" or "Sync failed" only when no worker is active.
C17_MarkerTracksRun ==
    /\ \A t \in Triggers :
           WorkerActive(t) => (exists(marker) /\ read_status(marker) = RUNNING)
    /\ Terminal(marker) => \A t \in Triggers : ~WorkerActive(t)

===========================================================================
